---- MODULE Spec2Model ----
(***************************************************************************)
(* The shopping cart store of the storefront (src/src/store/cartSlice.tsx) *)
(* and its sessionStorage mirror, under Spec; the order service            *)
(* (src/unnamed/part_008): createOrder under SpecOrder, with two sessions  *)
(* under SpecRace, cancelOrder under SpecCancel and calculateOrderSummary  *)
(* under SpecSummary; the cart panel's order placement                     *)
(* (src/src/components/Login.tsx) under SpecCheckout; the auth listener    *)
(* (src/src/contexts/AuthContext.tsx) under SpecAuth.                      *)
(*                                                                         *)
(* Prices are whole cents.  A stored value is modelled by the JSON value   *)
(* its string parses to (or by the fact that it does not parse), so that   *)
(* JSON.stringify followed by JSON.parse is the conversion Stringify: it   *)
(* drops what cartToSave leaves out and turns a Date into a string.        *)
(***************************************************************************)
EXTENDS Integers, Sequences, FiniteSets, TLC

(* ------------------------------ bounds --------------------------------- *)

\* products of the catalogue: ids 1..NumProducts
NumProducts == 2
\* catalogue prices, in cents: 1..MaxPrice
MaxPrice == 2
\* cap on the quantity of a cart line
MaxQuantity == 3
\* largest quantity an addToCart payload carries
MaxAddQuantity == 2
\* largest sessionStorage quota, in the units of Size
MaxQuota == 3
\* largest totalItems / totalPrice a foreign stored cart carries
MaxStoredTotal == 1

\* createOrder calls that can be in flight at once, one per session
NumSessions == 1
\* items of one createOrder call, and the quantity of one item
MaxLines == 2
MaxOrderQuantity == 2
\* units of a product in stock
MaxStock == 1
\* orders the order store can hold
MaxOrders == 1
\* lines of a list calculateOrderSummary is applied to
MaxSummaryLines == 3

ProductIds == 1..NumProducts
Prices == 1..MaxPrice

VARIABLES
  cart,      \* the Redux cart state (CartState)
  storage,   \* the value under CART_STORAGE_KEY in sessionStorage
  quota,     \* the size sessionStorage.setItem accepts before it throws
  lastOp,    \* history: the last operation dispatched and how it ended
  before,    \* history: cart and storage before the last operation
  products,  \* the products collection, by product id
  orders,    \* the orders collection, in the order the documents were written
  call,      \* the createOrder call of each session
  callHistory, \* history: what each call found when it started and read
  placed,    \* history: for each order, the items submitted and products read
  summaryItems, \* the order lines calculateOrderSummary is applied to
  orderSummary, \* what calculateOrderSummary returned, once it has
  cancel,    \* the cancelOrder call of each session
  cancelHistory, \* history: what each cancelOrder call found and read
  checkout,  \* the cart panel's order placement (handlePlaceOrder)
  auth,      \* the AuthProvider state: user, isAuthenticated, loading, error
  listener   \* the auth listener: the events received, the fetches in flight

cartVars == <<cart, storage, quota, lastOp, before>>
orderVars == <<products, orders, call, callHistory, placed>>
summaryVars == <<summaryItems, orderSummary>>
cancelVars == <<cancel, cancelHistory>>
checkoutVars == <<checkout>>
authVars == <<auth, listener>>
vars == <<cart, storage, quota, lastOp, before, products, orders, call,
          callHistory, placed, summaryItems, orderSummary, cancel,
          cancelHistory, checkout, auth, listener>>

(* --------------------------- data (cartTypes) --------------------------- *)

\* Product, reduced to the fields the cart reads, and the type of createdAt
Product(id, price, createdAt) ==
  [id |-> id, price |-> price, createdAt |-> createdAt]

\* CartItem
CartItem(product, quantity) ==
  [id |-> product.id, product |-> product, quantity |-> quantity]

\* CartState; hasItems is FALSE when state.items is undefined or null
CartState(hasItems, items, totalItems, totalPrice, isOpen) ==
  [hasItems |-> hasItems, items |-> items, totalItems |-> totalItems,
   totalPrice |-> totalPrice, isOpen |-> isOpen]

\* the fallback of loadCartFromStorage
EmptyCart == CartState(TRUE, << >>, 0, 0, FALSE)

(* ----------------------------- Array helpers ---------------------------- *)

RECURSIVE SumQuantity(_)
\* items.reduce((total, item) => total + item.quantity, 0)
SumQuantity(items) ==
  IF items = << >> THEN 0
  ELSE SumQuantity(SubSeq(items, 1, Len(items) - 1))
         + items[Len(items)].quantity

RECURSIVE SumPrice(_)
\* items.reduce((total, item) => total + item.product.price * item.quantity, 0)
SumPrice(items) ==
  IF items = << >> THEN 0
  ELSE SumPrice(SubSeq(items, 1, Len(items) - 1))
         + items[Len(items)].product.price * items[Len(items)].quantity

calculateTotals(items) ==
  [totalItems |-> SumQuantity(items), totalPrice |-> SumPrice(items)]

\* index of the first item with that id, 0 when there is none (Array.find)
FindIndex(items, id) ==
  IF \E i \in 1..Len(items) : items[i].id = id
  THEN CHOOSE i \in 1..Len(items) :
         /\ items[i].id = id
         /\ \A j \in 1..(i - 1) : items[j].id # id
  ELSE 0

RECURSIVE FilterOut(_, _)
\* items.filter(item => item.id !== productId)
FilterOut(items, id) ==
  IF items = << >> THEN << >>
  ELSE IF Head(items).id = id THEN FilterOut(Tail(items), id)
       ELSE <<Head(items)>> \o FilterOut(Tail(items), id)

(* ------------------------------ storage --------------------------------- *)

\* a stored value: kind says what the string under the key is
Stored(kind, items, totalItems, totalPrice, isOpen) ==
  [kind |-> kind, items |-> items, totalItems |-> totalItems,
   totalPrice |-> totalPrice, isOpen |-> isOpen]

\* no value under the key
Absent == Stored("absent", << >>, 0, 0, "none")

\* JSON.stringify of one line: a Date becomes a string
StringifyItem(item) ==
  [item EXCEPT !.product.createdAt = "string"]

\* cartToSave without its items
StringifyTotalsOnly(state) ==
  Stored("noItems", << >>, state.totalItems, state.totalPrice, "none")

\* JSON.stringify(cartToSave): items, totalItems, totalPrice, and no isOpen;
\* an undefined items is left out of the string
Stringify(state) ==
  IF state.hasItems
  THEN Stored("cart",
              [i \in 1..Len(state.items) |-> StringifyItem(state.items[i])],
              state.totalItems, state.totalPrice, "none")
  ELSE Stored("noItems", << >>, state.totalItems, state.totalPrice, "none")

\* what a value costs against the quota: nothing when there is no value,
\* else one unit for the value and one for each line in it.  The key is the
\* only one the application writes and sessionStorage belongs to one tab,
\* so whether setItem throws depends on the value written alone; a quota of
\* 0 is a browser whose storage accepts nothing.
Size(stored) ==
  IF stored.kind = "absent" THEN 0 ELSE 1 + Len(stored.items)

\* loadCartFromStorage that spreads parsedCart over the recalculated totals
loadCartFromStorageTrustingStored(stored) ==
  CASE stored.kind \in {"absent", "unparseable", "null", "itemsNotArray"} ->
         EmptyCart
    [] stored.kind \in {"number", "noItems", "nullItems"} ->
         CartState(FALSE, << >>, stored.totalItems, stored.totalPrice, FALSE)
    [] stored.kind = "cart" ->
         CartState(TRUE, stored.items, stored.totalItems, stored.totalPrice,
                   FALSE)

\* loadCartFromStorage without the default cart: a missing or unparseable
\* value leaves the state without its list of items
loadCartFromStorageNoDefault(stored) ==
  CASE stored.kind \in {"absent", "unparseable"} ->
         CartState(FALSE, << >>, 0, 0, FALSE)
    [] stored.kind \in {"null", "itemsNotArray"} -> EmptyCart
    [] stored.kind \in {"number", "noItems", "nullItems"} ->
         CartState(FALSE, << >>, calculateTotals(<< >>).totalItems,
                   calculateTotals(<< >>).totalPrice, FALSE)
    [] stored.kind = "cart" ->
         CartState(TRUE, stored.items, calculateTotals(stored.items).totalItems,
                   calculateTotals(stored.items).totalPrice, FALSE)

\* loadCartFromStorage without the isOpen override: the spread of parsedCart
\* brings the stored isOpen
loadCartFromStorageKeepingIsOpen(stored) ==
  CASE stored.kind \in {"absent", "unparseable", "null", "itemsNotArray"} ->
         EmptyCart
    [] stored.kind \in {"number", "noItems", "nullItems"} ->
         CartState(FALSE, << >>, calculateTotals(<< >>).totalItems,
                   calculateTotals(<< >>).totalPrice, stored.isOpen = "true")
    [] stored.kind = "cart" ->
         CartState(TRUE, stored.items, calculateTotals(stored.items).totalItems,
                   calculateTotals(stored.items).totalPrice,
                   stored.isOpen = "true")

\* loadCartFromStorage: the CartState the store starts with
loadCartFromStorage(stored) ==
  CASE stored.kind = "absent" -> EmptyCart            \* getItem gives null
    [] stored.kind = "unparseable" -> EmptyCart       \* JSON.parse throws
    [] stored.kind = "null" -> EmptyCart              \* null.items throws
    [] stored.kind = "itemsNotArray" -> EmptyCart     \* items.reduce throws
    [] stored.kind \in {"number", "noItems", "nullItems"} ->
         \* calculateTotals(parsedCart.items || []) and the spread of
         \* parsedCart, which brings no list of items
         CartState(FALSE, << >>, calculateTotals(<< >>).totalItems,
                   calculateTotals(<< >>).totalPrice, FALSE)
    [] stored.kind = "cart" ->
         CartState(TRUE, stored.items, calculateTotals(stored.items).totalItems,
                   calculateTotals(stored.items).totalPrice, FALSE)

\* saveCartToStorage whose catch removes the key
saveCartToStorageRemovingOnFailure(state, stored, q) ==
  IF Size(Stringify(state)) > q
  THEN [storage |-> Absent, save |-> "failed"]
  ELSE [storage |-> Stringify(state), save |-> "stored"]

\* saveCartToStorage: setItem throws when the value does not fit, the catch
\* swallows it and the old value stays
saveCartToStorage(state, stored, q) ==
  IF Size(Stringify(state)) > q
  THEN [storage |-> stored, save |-> "failed"]
  ELSE [storage |-> Stringify(state), save |-> "stored"]

(* ----------------------------- reducers --------------------------------- *)

\* how a dispatch ends: the next cart and stored value, whether the reducer
\* threw, and what became of its storage write (none, stored, failed)
Outcome(state, stored, threw, save) ==
  [cart |-> state, storage |-> stored, threw |-> threw, save |-> save]

\* a reducer that throws leaves the store's state as it was
Throws(state, stored) == Outcome(state, stored, TRUE, "none")

\* recalculate the totals of state over items, then save
Recalculated(state, items, stored, q) ==
  LET totals == calculateTotals(items)
      next == [state EXCEPT !.hasItems = TRUE, !.items = items,
                            !.totalItems = totals.totalItems,
                            !.totalPrice = totals.totalPrice]
      saved == saveCartToStorage(next, stored, q)
  IN Outcome(next, saved.storage, FALSE, saved.save)

\* the payload's quantity, an optional held as a sequence of at most one
QuantityOrDefault(quantity) ==
  IF quantity = << >> THEN 1 ELSE quantity[1]

\* addToCart that pushes a line without looking for an existing one
addToCartAlwaysPush(state, stored, q, product, quantity) ==
  IF ~state.hasItems THEN Throws(state, stored)
  ELSE Recalculated(state,
                    Append(state.items,
                           CartItem(product, QuantityOrDefault(quantity))),
                    stored, q)

\* addToCart that sets the quantity of an existing line instead of adding
addToCartOverwrite(state, stored, q, product, quantity) ==
  IF ~state.hasItems THEN Throws(state, stored)
  ELSE
    LET n == QuantityOrDefault(quantity)
        i == FindIndex(state.items, product.id)
        items == IF i # 0
                 THEN [state.items EXCEPT ![i].quantity = n]
                 ELSE Append(state.items, CartItem(product, n))
    IN Recalculated(state, items, stored, q)

addToCart(state, stored, q, product, quantity) ==
  IF ~state.hasItems THEN Throws(state, stored)
  ELSE
    LET n == QuantityOrDefault(quantity)
        i == FindIndex(state.items, product.id)
        items == IF i # 0
                 THEN [state.items EXCEPT ![i].quantity = @ + n]
                 ELSE Append(state.items, CartItem(product, n))
    IN Recalculated(state, items, stored, q)

\* removeFromCart that takes one unit off the line and drops it at zero
removeFromCartOneUnit(state, stored, q, productId) ==
  IF ~state.hasItems THEN Throws(state, stored)
  ELSE
    LET i == FindIndex(state.items, productId)
        items == IF i = 0 THEN state.items
                 ELSE IF state.items[i].quantity <= 1
                      THEN FilterOut(state.items, productId)
                      ELSE [state.items EXCEPT ![i].quantity = @ - 1]
    IN Recalculated(state, items, stored, q)

removeFromCart(state, stored, q, productId) ==
  IF ~state.hasItems THEN Throws(state, stored)
  ELSE Recalculated(state, FilterOut(state.items, productId), stored, q)

\* updateCartItemQuantity that removes only below zero
updateCartItemQuantityBelowZero(state, stored, q, productId, quantity) ==
  IF ~state.hasItems THEN Throws(state, stored)
  ELSE
    LET i == FindIndex(state.items, productId)
        items == IF quantity < 0 THEN FilterOut(state.items, productId)
                 ELSE IF i # 0
                      THEN [state.items EXCEPT ![i].quantity = quantity]
                      ELSE state.items
    IN Recalculated(state, items, stored, q)

\* updateCartItemQuantity that removes the line and returns before the
\* totals are recalculated and the cart is saved
updateCartItemQuantityEarlyReturn(state, stored, q, productId, quantity) ==
  IF ~state.hasItems THEN Throws(state, stored)
  ELSE
    LET i == FindIndex(state.items, productId)
    IN IF quantity <= 0
       THEN Outcome([state EXCEPT !.items = FilterOut(state.items, productId)],
                    stored, FALSE, "none")
       ELSE Recalculated(state,
                         IF i # 0
                         THEN [state.items EXCEPT ![i].quantity = quantity]
                         ELSE state.items,
                         stored, q)

updateCartItemQuantity(state, stored, q, productId, quantity) ==
  IF ~state.hasItems THEN Throws(state, stored)
  ELSE
    LET i == FindIndex(state.items, productId)
        items == IF quantity <= 0 THEN FilterOut(state.items, productId)
                 ELSE IF i # 0
                      THEN [state.items EXCEPT ![i].quantity = quantity]
                      ELSE state.items
    IN Recalculated(state, items, stored, q)

\* incrementQuantity that saves without recalculating the totals
incrementQuantityStaleTotals(state, stored, q, productId) ==
  IF ~state.hasItems THEN Throws(state, stored)
  ELSE
    LET i == FindIndex(state.items, productId)
        next == [state EXCEPT !.items[i].quantity = @ + 1]
        saved == saveCartToStorage(next, stored, q)
    IN IF i # 0
       THEN Outcome(next, saved.storage, FALSE, saved.save)
       ELSE Outcome(state, stored, FALSE, "none")

incrementQuantity(state, stored, q, productId) ==
  IF ~state.hasItems THEN Throws(state, stored)
  ELSE
    LET i == FindIndex(state.items, productId)
    IN IF i # 0
       THEN Recalculated(state, [state.items EXCEPT ![i].quantity = @ + 1],
                         stored, q)
       ELSE Outcome(state, stored, FALSE, "none")

\* decrementQuantity that never removes the line
decrementQuantityNoRemove(state, stored, q, productId) ==
  IF ~state.hasItems THEN Throws(state, stored)
  ELSE
    LET i == FindIndex(state.items, productId)
    IN IF i # 0
       THEN Recalculated(state, [state.items EXCEPT ![i].quantity = @ - 1],
                         stored, q)
       ELSE Outcome(state, stored, FALSE, "none")

\* decrementQuantity that drops the first line where it should drop the
\* line of the product
decrementQuantityRemovingFirst(state, stored, q, productId) ==
  IF ~state.hasItems THEN Throws(state, stored)
  ELSE
    LET i == FindIndex(state.items, productId)
    IN IF i # 0
       THEN Recalculated(state,
                         IF state.items[i].quantity <= 1
                         THEN Tail(state.items)
                         ELSE [state.items EXCEPT ![i].quantity = @ - 1],
                         stored, q)
       ELSE Outcome(state, stored, FALSE, "none")

decrementQuantity(state, stored, q, productId) ==
  IF ~state.hasItems THEN Throws(state, stored)
  ELSE
    LET i == FindIndex(state.items, productId)
    IN IF i # 0
       THEN Recalculated(state,
                         IF state.items[i].quantity <= 1
                         THEN FilterOut(state.items, productId)
                         ELSE [state.items EXCEPT ![i].quantity = @ - 1],
                         stored, q)
       ELSE Outcome(state, stored, FALSE, "none")

\* clearCart that does not save
clearCartNoSave(state, stored, q) ==
  Outcome([state EXCEPT !.hasItems = TRUE, !.items = << >>,
                        !.totalItems = 0, !.totalPrice = 0],
          stored, FALSE, "none")

clearCart(state, stored, q) ==
  LET next == [state EXCEPT !.hasItems = TRUE, !.items = << >>,
                            !.totalItems = 0, !.totalPrice = 0]
      saved == saveCartToStorage(next, stored, q)
  IN Outcome(next, saved.storage, FALSE, saved.save)

toggleCart(state, stored) ==
  Outcome([state EXCEPT !.isOpen = ~state.isOpen], stored, FALSE, "none")

openCart(state, stored) ==
  Outcome([state EXCEPT !.isOpen = TRUE], stored, FALSE, "none")

closeCart(state, stored) ==
  Outcome([state EXCEPT !.isOpen = FALSE], stored, FALSE, "none")

(***************************************************************************)
(* The order service (src/unnamed/part_008).                               *)
(*                                                                         *)
(* Amounts are whole cents.  Catalogue prices are whole cents, so          *)
(* Math.round(price * quantity * 100) is price * quantity in cents and an  *)
(* order line's totalPrice is the double nearest to that many cents.  The  *)
(* summary's rounded fields are far from half a cent and are computed in   *)
(* cents; the comparison subtotal > 50 is made on the unrounded sum of     *)
(* doubles, which is computed below as IEEE 754 defines it.                *)
(***************************************************************************)

(* --------------------- JavaScript numbers (binary64) -------------------- *)

\* significand of a double, in bits
SignificandBits == 53
\* a double below 2^24 and no smaller than a cent is a whole number of
\* 2^-72: four limbs of LimbBits bits, the first the whole part, the other
\* three the fraction, most significant first
LimbBits == 24
Base == 2^LimbBits

Zero == <<0, 0, 0, 0>>

\* bit p of l, 1 being the most significant bit of the first limb
Bit(l, p) ==
  IF p > Len(l) * LimbBits THEN 0
  ELSE (l[(p - 1) \div LimbBits + 1]
          \div 2^(LimbBits - 1 - ((p - 1) % LimbBits))) % 2

\* l with what limbs i and below hold over Base carried upwards
RECURSIVE Carried(_, _)
Carried(l, i) ==
  IF i = 1 THEN l
  ELSE Carried([l EXCEPT ![i] = @ % Base, ![i - 1] = @ + l[i] \div Base],
               i - 1)

\* the position of the leading 1 of l, which is not zero
LeadingIn(l, i) ==
  (i - 1) * LimbBits + LimbBits
  - (CHOOSE k \in 0..(LimbBits - 1) : 2^k <= l[i] /\ l[i] < 2 * 2^k)

Leading(l) ==
  LeadingIn(l, CHOOSE i \in 1..Len(l) : l[i] # 0 /\ \A j \in 1..(i - 1) : l[j] = 0)

\* l cut after bit last, which is in limb i with weight m there
Kept(l, i, m) ==
  [j \in 1..Len(l) |-> IF j < i THEN l[j]
                       ELSE IF j = i THEN l[i] - (l[i] % m) ELSE 0]

\* l rounded to its bits up to last: to nearest, ties to even; sticky says
\* that the number l stands for has more bits than l holds
RoundIn(l, last, sticky, i, m) ==
  IF /\ Bit(l, last + 1) = 1
     /\ \/ sticky
        \/ \E p \in (last + 2)..(Len(l) * LimbBits) : Bit(l, p) = 1
        \/ Bit(l, last) = 1
  THEN Carried([Kept(l, i, m) EXCEPT ![i] = @ + m], Len(l))
  ELSE Kept(l, i, m)

RoundAt(l, last, sticky) ==
  RoundIn(l, last, sticky, (last - 1) \div LimbBits + 1,
          2^(LimbBits - 1 - ((last - 1) % LimbBits)))

\* the double nearest to the number l stands for
RoundNearestEven(l, sticky) ==
  IF \A i \in 1..Len(l) : l[i] = 0 THEN l
  ELSE RoundAt(l, Leading(l) + SignificandBits - 1, sticky)

\* cents / 100 by long division, a limb at a step: the limbs so far and the
\* remainder
RECURSIVE Hundredth(_, _, _)
Hundredth(l, rem, n) ==
  IF n = 0 THEN RoundNearestEven(l, rem # 0)
  ELSE Hundredth(Append(l, (rem * Base) \div 100), (rem * Base) % 100, n - 1)

\* the double of an amount of whole cents: Math.round(...) / 100
FloatOfCents(cents) == Hundredth(<<cents \div 100>>, cents % 100, 3)

\* a + b on doubles
FloatAdd(a, b) ==
  RoundNearestEven(Carried([i \in 1..Len(a) |-> a[i] + b[i]], Len(a)), FALSE)

\* a > n for a double a and a whole number n
FloatGreater(a, n) ==
  \/ a[1] > n
  \/ a[1] = n /\ \E i \in 2..Len(a) : a[i] # 0

(* --------------------------- order summaries ---------------------------- *)

\* taxRate, in hundredths
TaxRatePercent == 8
\* orders over this many dollars ship free
FreeShippingOver == 50
\* the flat shipping fee, in cents
ShippingFeeCents == 999

\* a product as getProductById returns it: what createOrder reads of it
ProductRecord(id, price, stock, trackInventory) ==
  [id |-> id, price |-> price,
   inventory |-> [stock |-> stock, trackInventory |-> trackInventory]]

\* an order line with totalPrice = Math.round(price * quantity * 100) / 100
\* where it should be the unit price
OrderItemUnitTotal(product, quantity) ==
  [productId |-> product.id, product |-> product, quantity |-> quantity,
   priceAtTime |-> product.price, totalPrice |-> product.price]

\* the order line createOrder builds from the product it read
OrderItem(product, quantity) ==
  [productId |-> product.id, product |-> product, quantity |-> quantity,
   priceAtTime |-> product.price, totalPrice |-> product.price * quantity]

\* Math.round of n hundredths of a cent, in cents
RoundHundredths(n) == (n + 50) \div 100

\* the sum of the line totals, in cents
RECURSIVE SumTotalPrice(_)
SumTotalPrice(items) ==
  IF items = << >> THEN 0
  ELSE SumTotalPrice(SubSeq(items, 1, Len(items) - 1))
       + items[Len(items)].totalPrice

\* items.reduce((sum, item) => sum + item.totalPrice, 0) as JavaScript
\* computes it: a sum of doubles, from the left
RECURSIVE FloatSubtotal(_)
FloatSubtotal(items) ==
  IF items = << >> THEN Zero
  ELSE FloatAdd(FloatSubtotal(SubSeq(items, 1, Len(items) - 1)),
                FloatOfCents(items[Len(items)].totalPrice))

\* subtotal > 50 ? 0 : 9.99, in cents; subtotal is the unrounded sum
Shipping(items) ==
  IF FloatGreater(FloatSubtotal(items), FreeShippingOver)
  THEN 0 ELSE ShippingFeeCents

\* a total that drops the fraction of a cent
TotalCentsTruncated(subtotal, shipping) ==
  ((100 + TaxRatePercent) * subtotal) \div 100 + shipping

\* Math.round((subtotal + subtotal * taxRate + shipping - 0) * 100)
TotalCents(subtotal, shipping) ==
  RoundHundredths((100 + TaxRatePercent) * subtotal + 100 * shipping)

\* calculateOrderSummary, every field in cents.  The unrounded sum differs
\* from the whole number of cents it stands for by less than 2^-40 and
\* 8% of a whole number of cents is never within 0.04 of half a cent, so
\* each Math.round lands on the cents computed here.
calculateOrderSummary(items) ==
  LET subtotal == SumTotalPrice(items)
      shipping == Shipping(items)
  IN [subtotal |-> subtotal,
      tax |-> RoundHundredths(TaxRatePercent * subtotal),
      shipping |-> shipping,
      discount |-> 0,
      total |-> TotalCents(subtotal, shipping)]

(* ------------------------------ createOrder ----------------------------- *)

\* what createOrder is given: the items to order, each a product id and a
\* quantity
SubmittedItem(productId, quantity) ==
  [productId |-> productId, quantity |-> quantity]

\* a createOrder call: where it is (idle, lookup, save, commit, resolved,
\* rejected), its orderData.items, the orderItems pushed so far, the
\* summary and the id of orderRef once they are made, and the message it
\* rejected with
Call(pc, items, orderItems, summary, orderId, error) ==
  [pc |-> pc, items |-> items, orderItems |-> orderItems,
   summary |-> summary, orderId |-> orderId, error |-> error]

IdleCall == Call("idle", << >>, << >>, << >>, 0, "none")

\* the catch: the call rejects with the error's message
Rejected(c, error) == [c EXCEPT !.pc = "rejected", !.error = error]

\* getProductById: the product under the id, or null (no element) when
\* there is none the user may read
getProductById(catalogue, productId) ==
  IF catalogue[productId].exists
  THEN <<ProductRecord(productId, catalogue[productId].price,
                       catalogue[productId].inventory.stock,
                       catalogue[productId].inventory.trackInventory)>>
  ELSE << >>

\* a loop that leaves the last item out
NextItemStoppingEarly(c) ==
  IF Len(c.orderItems) + 1 < Len(c.items)
  THEN [c EXCEPT !.pc = "lookup"]
  ELSE [c EXCEPT !.pc = "save",
                 !.summary = <<calculateOrderSummary(c.orderItems)>>]

\* the for loop over orderData.items: another lookup while an item is left,
\* otherwise the summary is calculated and the order is ready to be saved
NextItem(c) ==
  IF Len(c.orderItems) < Len(c.items)
  THEN [c EXCEPT !.pc = "lookup"]
  ELSE [c EXCEPT !.pc = "save",
                 !.summary = <<calculateOrderSummary(c.orderItems)>>]

\* createOrder that starts without looking at the length of items
createOrderStartUnvalidated(signedIn, items) ==
  IF ~signedIn
  THEN Rejected(Call("idle", items, << >>, << >>, 0, "none"),
                "User must be authenticated to create orders")
  ELSE NextItem(Call("idle", items, << >>, << >>, 0, "none"))

\* createOrder up to its first await
createOrderStart(signedIn, items) ==
  IF ~signedIn
  THEN Rejected(Call("idle", items, << >>, << >>, 0, "none"),
                "User must be authenticated to create orders")
  ELSE IF Len(items) = 0
  THEN Rejected(Call("idle", items, << >>, << >>, 0, "none"),
                "Order must contain at least one item")
  ELSE NextItem(Call("idle", items, << >>, << >>, 0, "none"))

\* one turn of the loop that pushes the line without the stock check
createOrderLineUnchecked(c, catalogue, fetched) ==
  LET item == c.items[Len(c.orderItems) + 1]
      found == getProductById(catalogue, item.productId)
  IN IF ~fetched THEN Rejected(c, "Failed to fetch product")
     ELSE IF found = << >> THEN Rejected(c, "Product not found")
     ELSE NextItem([c EXCEPT !.orderItems =
                               Append(@, OrderItem(found[1], item.quantity))])

\* one turn of the loop with the stock check on the products that do not
\* track inventory
createOrderLineCheckingUntracked(c, catalogue, fetched) ==
  LET item == c.items[Len(c.orderItems) + 1]
      found == getProductById(catalogue, item.productId)
  IN IF ~fetched THEN Rejected(c, "Failed to fetch product")
     ELSE IF found = << >> THEN Rejected(c, "Product not found")
     ELSE IF /\ ~found[1].inventory.trackInventory
             /\ found[1].inventory.stock < item.quantity
     THEN Rejected(c, "Insufficient stock")
     ELSE NextItem([c EXCEPT !.orderItems =
                               Append(@, OrderItem(found[1], item.quantity))])

\* one turn of the loop, from the await of getProductById on: the lookup
\* may throw, the product may be missing or short of stock, or the line is
\* pushed
createOrderLine(c, catalogue, fetched) ==
  LET item == c.items[Len(c.orderItems) + 1]
      found == getProductById(catalogue, item.productId)
  IN IF ~fetched THEN Rejected(c, "Failed to fetch product")
     ELSE IF found = << >> THEN Rejected(c, "Product not found")
     ELSE IF /\ found[1].inventory.trackInventory
             /\ found[1].inventory.stock < item.quantity
     THEN Rejected(c, "Insufficient stock")
     ELSE NextItem([c EXCEPT !.orderItems =
                               Append(@, OrderItem(found[1], item.quantity))])

\* the order document setDoc writes
Order(id, userId, c) ==
  [id |-> id, userId |-> userId, items |-> c.orderItems,
   summary |-> c.summary[1], status |-> "pending",
   paymentStatus |-> "pending"]

\* a batch that takes each tracked line's quantity off the stock the
\* product has when the batch is committed
RECURSIVE BatchStockDecrementing(_, _, _)
BatchStockDecrementing(orderItems, p, stock) ==
  IF orderItems = << >> THEN stock
  ELSE LET item == Head(orderItems)
       IN BatchStockDecrementing(
            Tail(orderItems), p,
            IF item.productId = p /\ item.product.inventory.trackInventory
            THEN stock - item.quantity
            ELSE stock)

\* the stock the batch leaves under product p: each tracked line updates
\* its product to the stock read at lookup less the line's quantity, and
\* the last update of a document is the one that stays
RECURSIVE BatchStock(_, _, _)
BatchStock(orderItems, p, stock) ==
  IF orderItems = << >> THEN stock
  ELSE LET item == Head(orderItems)
       IN BatchStock(Tail(orderItems), p,
                     IF item.productId = p /\ item.product.inventory.trackInventory
                     THEN item.product.inventory.stock - item.quantity
                     ELSE stock)

\* whether the batch holds an update
BatchIsEmpty(orderItems) ==
  \A i \in 1..Len(orderItems) : ~orderItems[i].product.inventory.trackInventory

\* the catalogue after batch.commit
CommitBatch(catalogue, orderItems) ==
  [p \in DOMAIN catalogue |->
     [catalogue[p] EXCEPT !.inventory.stock = BatchStock(orderItems, p, @)]]

\* setDoc(orderRef, order): the order is in the collection under a new id,
\* or the write fails and the call rejects
saveOrder(c, userId, orderList, written) ==
  IF written
  THEN [call |-> [c EXCEPT !.pc = "commit", !.orderId = Len(orderList) + 1],
        orders |-> Append(orderList, Order(Len(orderList) + 1, userId, c))]
  ELSE [call |-> Rejected(c, "order write failed"), orders |-> orderList]

\* batch.commit(): every update of the batch is applied, or none is and the
\* call rejects
commitStock(c, catalogue, committed) ==
  IF committed
  THEN [call |-> [c EXCEPT !.pc = "resolved"],
        products |-> CommitBatch(catalogue, c.orderItems)]
  ELSE [call |-> Rejected(c, "stock write failed"), products |-> catalogue]

\* a document of the products collection, or the lack of one
CatalogueEntry(exists, price, stock, trackInventory) ==
  [exists |-> exists, price |-> price,
   inventory |-> [stock |-> stock, trackInventory |-> trackInventory]]

Sessions == 1..NumSessions

\* what the history holds of a call: the stock of every product and the
\* orders in the collection when it started, the lookups it made, the
\* documents they read, and whether anyone else wrote stock since
History(stockAtStart, ordersAtStart, lookups, seen, otherWriter) ==
  [stockAtStart |-> stockAtStart, ordersAtStart |-> ordersAtStart,
   lookups |-> lookups, seen |-> seen, otherWriter |-> otherWriter]

NoHistory == History([p \in ProductIds |-> 0], {}, 0, << >>, FALSE)

(* ------------------------------ cancelOrder ----------------------------- *)

\* accounts that can be signed in
NumUsers == 2
\* the accounts; a session's createOrder calls sign their orders with the
\* session's own account
Users == 1..NumUsers

OrderStatuses ==
  {"pending", "confirmed", "processing", "shipped", "delivered", "cancelled"}

\* a cancelOrder call: where it is, auth.currentUser when it was called
\* (<< >> when nobody is signed in), the order id it was given, the order it
\* read and the error it rejected with
CancelCall(pc, user, orderId, order, error) ==
  [pc |-> pc, user |-> user, orderId |-> orderId, order |-> order,
   error |-> error]

IdleCancel == CancelCall("idle", << >>, 0, << >>, "none")

\* every throw inside cancelOrder is caught and thrown again as this
RejectedCancel(c) ==
  [c EXCEPT !.pc = "rejected", !.error = "Failed to cancel order"]

\* cancelOrder up to its first await
cancelOrderStart(currentUser, orderId) ==
  IF currentUser = << >>
  THEN RejectedCancel(CancelCall("idle", << >>, orderId, << >>, "none"))
  ELSE CancelCall("read", currentUser, orderId, << >>, "none")

\* getOrderById: the document under the id, or null
getOrderById(orderList, orderId) ==
  IF orderId \in DOMAIN orderList THEN <<orderList[orderId]>> ELSE << >>

\* the checks without the one on the status
cancelOrderCheckAnyStatus(c, orderList, fetched) ==
  IF ~fetched \/ getOrderById(orderList, c.orderId) = << >>
  THEN RejectedCancel(c)
  ELSE IF getOrderById(orderList, c.orderId)[1].userId # c.user[1]
  THEN RejectedCancel(c)
  ELSE [c EXCEPT !.pc = "status",
                 !.order = getOrderById(orderList, c.orderId)]

\* getOrderById settles and cancelOrder checks what it read
cancelOrderCheck(c, orderList, fetched) ==
  IF ~fetched \/ getOrderById(orderList, c.orderId) = << >>
  THEN RejectedCancel(c)
  ELSE IF getOrderById(orderList, c.orderId)[1].userId # c.user[1]
  THEN RejectedCancel(c)
  ELSE IF getOrderById(orderList, c.orderId)[1].status # "pending"
  THEN RejectedCancel(c)
  ELSE [c EXCEPT !.pc = "status",
                 !.order = getOrderById(orderList, c.orderId)]

\* updateOrderStatus: setDoc with merge writes the status under the id
updateOrderStatus(orderList, orderId, status) ==
  [orderList EXCEPT ![orderId].status = status]

\* updateOrderStatus(orderId, 'cancelled') settles
cancelOrderStatus(c, orderList, written) ==
  IF written
  THEN [call |-> [c EXCEPT !.pc = "restore"],
        orders |-> updateOrderStatus(orderList, c.orderId, "cancelled")]
  ELSE [call |-> RejectedCancel(c), orders |-> orderList]

\* the stock the restoring batch leaves under product p: each tracked line
\* updates its product to the stock in the line's product snapshot plus the
\* line's quantity, and the last update of a product is the one that stays
RECURSIVE RestoredStock(_, _, _)
RestoredStock(orderItems, p, stock) ==
  IF orderItems = << >> THEN stock
  ELSE IF /\ orderItems[Len(orderItems)].productId = p
          /\ orderItems[Len(orderItems)].product.inventory.trackInventory
  THEN orderItems[Len(orderItems)].product.inventory.stock
       + orderItems[Len(orderItems)].quantity
  ELSE RestoredStock(SubSeq(orderItems, 1, Len(orderItems) - 1), p, stock)

\* batch.commit() of the restoring batch settles
restoreStock(c, catalogue, committed) ==
  IF committed
  THEN [call |-> [c EXCEPT !.pc = "resolved"],
        products |->
          [p \in DOMAIN catalogue |->
             [catalogue[p] EXCEPT
                !.inventory.stock = RestoredStock(c.order[1].items, p, @)]]]
  ELSE [call |-> RejectedCancel(c), products |-> catalogue]

\* what the history holds of a cancelOrder call: the status of every order
\* and the stock of every product when it started, whether getOrderById
\* answered, what it answered, and whether anyone else wrote since
CancelHistory(statusAtStart, stockAtStart, answered, read, otherWriter) ==
  [statusAtStart |-> statusAtStart, stockAtStart |-> stockAtStart,
   answered |-> answered, read |-> read, otherWriter |-> otherWriter]

NoCancelHistory ==
  CancelHistory(<< >>, [p \in ProductIds |-> 0], FALSE, << >>, FALSE)

(* ------------------------------- checkout ------------------------------- *)

\* the cart panel's order placement: where handlePlaceOrder is, the session
\* it runs in, the orderData.items it awaits createOrder with, the order
\* number it was given and the message it shows
Checkout(pc, session, submitted, orderNumber, error) ==
  [pc |-> pc, session |-> session, submitted |-> submitted,
   orderNumber |-> orderNumber, error |-> error]

IdleCheckout == Checkout("idle", 0, << >>, 0, "none")

\* items.map(item => ({productId: item.product.id, quantity: item.quantity}))
OrderDataItems(lines) ==
  [i \in 1..Len(lines) |->
     SubmittedItem(lines[i].product.id, lines[i].quantity)]

\* handlePlaceOrder up to its await of createOrder
handlePlaceOrder(s, state, isAuthenticated, addressComplete) ==
  IF ~isAuthenticated
  THEN Checkout("failed", s, << >>, 0, "Please log in to place an order")
  ELSE IF ~addressComplete
  THEN Checkout("failed", s, << >>, 0,
                "Please fill in all required shipping address fields")
  ELSE IF ~state.hasItems
  THEN Checkout("failed", s, << >>, 0, "TypeError")
  ELSE Checkout("creating", s, OrderDataItems(state.items), 0, "none")

\* a continuation that clears the cart whatever createOrder answered
handlePlaceOrderSettledClearing(s, c, state, stored, q) ==
  [checkout |-> IF c.pc = "resolved"
                THEN Checkout("done", s, << >>, c.orderId, "none")
                ELSE Checkout("failed", s, << >>, 0, c.error),
   outcome |-> clearCart(state, stored, q),
   dispatched |-> TRUE]

\* handlePlaceOrder from its await on: createOrder resolved and the cart is
\* cleared, or it rejected and the message is kept
handlePlaceOrderSettled(s, c, state, stored, q) ==
  IF c.pc = "resolved"
  THEN [checkout |-> Checkout("done", s, << >>, c.orderId, "none"),
        outcome |-> clearCart(state, stored, q),
        dispatched |-> TRUE]
  ELSE [checkout |-> Checkout("failed", s, << >>, 0, c.error),
        outcome |-> Outcome(state, stored, FALSE, "none"),
        dispatched |-> FALSE]

(* --------------------------- the auth listener -------------------------- *)

\* the AuthProvider state; user is << >> for null
AuthState(user, isAuthenticated, loading, error) ==
  [user |-> user, isAuthenticated |-> isAuthenticated, loading |-> loading,
   error |-> error]

\* the listener: the events it received, oldest first (<< >> for a
\* sign-out, <<uid>> for a sign-in), and the uids whose profile fetch has
\* not settled, in the order the fetches were started
Listener(events, fetching) == [events |-> events, fetching |-> fetching]

\* the callback up to its await: loading is set, and a sign-out sets the
\* state at once while a sign-in starts the fetch of the profile
authStateChanged(a, l, firebaseUser) ==
  IF firebaseUser # << >>
  THEN [auth |-> [a EXCEPT !.loading = TRUE],
        listener |-> Listener(Append(l.events, firebaseUser),
                              Append(l.fetching, firebaseUser[1]))]
  ELSE [auth |-> [a EXCEPT !.user = << >>, !.isAuthenticated = FALSE,
                           !.loading = FALSE],
        listener |-> Listener(Append(l.events, firebaseUser), l.fetching)]

\* the sequence without its i-th element
Without(seq, i) ==
  [j \in 1..(Len(seq) - 1) |-> IF j < i THEN seq[j] ELSE seq[j + 1]]

\* the callback from its await on: getUserProfile of the i-th fetch in
\* flight answered with the profile, with null, or threw
profileFetched(a, l, i, answer) ==
  [auth |->
     IF answer = "profile"
     THEN [a EXCEPT !.user = <<l.fetching[i]>>, !.isAuthenticated = TRUE,
                    !.loading = FALSE]
     ELSE IF answer = "null"
     THEN [a EXCEPT !.user = << >>, !.isAuthenticated = FALSE,
                    !.loading = FALSE]
     ELSE [a EXCEPT !.user = << >>, !.isAuthenticated = FALSE,
                    !.loading = FALSE,
                    !.error = "Failed to load user profile"],
   listener |-> Listener(l.events, Without(l.fetching, i))]

(* --------------------------- initial states ----------------------------- *)

\* the lines a cart store can have written: distinct products, quantity >= 1,
\* product snapshots as JSON holds them
DistinctIds(items) ==
  \A i, j \in 1..Len(items) : items[i].id = items[j].id => i = j

StoredItem(id, price, quantity) ==
  CartItem(Product(id, price, "string"), quantity)

StoredItems ==
  {StoredItem(id, price, quantity) :
     id \in ProductIds, price \in Prices, quantity \in 1..MaxQuantity}

StoredLines ==
  {items \in UNION {[1..n -> StoredItems] : n \in 0..NumProducts} :
     DistinctIds(items)}

\* what can be under the key when the page loads: nothing, a string that
\* is no JSON, JSON that is no cart, or a cart with any totals and perhaps
\* an isOpen left by another writer
StoredValues ==
  {Stored(kind, << >>, 0, 0, "none") :
     kind \in {"absent", "unparseable", "null", "number", "noItems",
               "nullItems", "itemsNotArray"}}
  \cup
  {Stored("cart", items, totalItems, totalPrice, isOpen) :
     items \in StoredLines, totalItems \in 0..MaxStoredTotal,
     totalPrice \in 0..MaxStoredTotal, isOpen \in {"none", "true"}}
  \cup
  {Stringify(CartState(TRUE, items, SumQuantity(items), SumPrice(items), FALSE)) :
     items \in StoredLines}

\* an operation as the history records it: its name, the product id and the
\* quantity of its payload (a sequence of at most one), whether it threw and
\* what became of its storage write
Op(name, id, quantity, threw, save) ==
  [name |-> name, id |-> id, quantity |-> quantity, threw |-> threw,
   save |-> save]

\* no cart is looked at
NoCart ==
  /\ cart = EmptyCart
  /\ storage = Absent
  /\ quota = 0
  /\ lastOp = Op("loadCartFromStorage", 0, << >>, FALSE, "none")
  /\ before = [cart |-> EmptyCart, storage |-> Absent]

\* no order service is looked at
NoOrderService ==
  /\ products = [p \in ProductIds |-> CatalogueEntry(FALSE, 0, 0, FALSE)]
  /\ orders = << >>
  /\ call = [s \in Sessions |-> IdleCall]
  /\ callHistory = [s \in Sessions |-> NoHistory]
  /\ placed = << >>

\* no summary is looked at
NoSummary ==
  /\ summaryItems = << >>
  /\ orderSummary = << >>

\* no cancelOrder call is looked at
NoCancel ==
  /\ cancel = [s \in Sessions |-> IdleCancel]
  /\ cancelHistory = [s \in Sessions |-> NoCancelHistory]

\* no order placement is looked at
NoCheckout == checkout = IdleCheckout

\* no auth listener is looked at
NoAuth ==
  /\ auth = AuthState(<< >>, FALSE, TRUE, "none")
  /\ listener = Listener(<< >>, << >>)

Init ==
  /\ quota \in 0..MaxQuota
  /\ storage \in {v \in StoredValues : Size(v) <= quota}
  /\ cart = loadCartFromStorage(storage)
  /\ lastOp = Op("loadCartFromStorage", 0, << >>, FALSE, "none")
  /\ before = [cart |-> EmptyCart, storage |-> storage]
  /\ NoOrderService
  /\ NoSummary
  /\ NoCancel
  /\ NoCheckout
  /\ NoAuth

(* ------------------------------ actions --------------------------------- *)

\* the store takes the outcome of a dispatch
Dispatch(name, id, quantity, r) ==
  /\ cart' = r.cart
  /\ storage' = r.storage
  /\ lastOp' = Op(name, id, quantity, r.threw, r.save)
  /\ before' = [cart |-> cart, storage |-> storage]
  /\ UNCHANGED <<quota, orderVars, summaryVars, cancelVars, checkoutVars, authVars>>

WithinCap(items) ==
  \A i \in 1..Len(items) : items[i].quantity <= MaxQuantity

AddQuantities == {<< >>} \cup {<<n>> : n \in 1..MaxAddQuantity}

AddToCart ==
  \E id \in ProductIds, price \in Prices, quantity \in AddQuantities :
    LET r == addToCart(cart, storage, quota, Product(id, price, "Date"),
                       quantity)
    IN /\ WithinCap(r.cart.items)
       /\ Dispatch("addToCart", id, quantity, r)

RemoveFromCart ==
  \E id \in ProductIds :
    Dispatch("removeFromCart", id, << >>,
             removeFromCart(cart, storage, quota, id))

UpdateCartItemQuantity ==
  \E id \in ProductIds, quantity \in (-1)..MaxQuantity :
    Dispatch("updateCartItemQuantity", id, <<quantity>>,
             updateCartItemQuantity(cart, storage, quota, id, quantity))

IncrementQuantity ==
  \E id \in ProductIds :
    LET r == incrementQuantity(cart, storage, quota, id)
    IN /\ WithinCap(r.cart.items)
       /\ Dispatch("incrementQuantity", id, << >>, r)

DecrementQuantity ==
  \E id \in ProductIds :
    Dispatch("decrementQuantity", id, << >>,
             decrementQuantity(cart, storage, quota, id))

ClearCart == Dispatch("clearCart", 0, << >>, clearCart(cart, storage, quota))

ToggleCart == Dispatch("toggleCart", 0, << >>, toggleCart(cart, storage))

OpenCart == Dispatch("openCart", 0, << >>, openCart(cart, storage))

CloseCart == Dispatch("closeCart", 0, << >>, closeCart(cart, storage))

\* a page refresh: the store is built again from what is stored
Reload ==
  Dispatch("loadCartFromStorage", 0, << >>,
           Outcome(loadCartFromStorage(storage), storage, FALSE, "none"))

Next ==
  \/ AddToCart
  \/ RemoveFromCart
  \/ UpdateCartItemQuantity
  \/ IncrementQuantity
  \/ DecrementQuantity
  \/ ClearCart
  \/ ToggleCart
  \/ OpenCart
  \/ CloseCart
  \/ Reload

Spec == Init /\ [][Next]_vars

(* ------------------------- the claims' vocabulary ----------------------- *)

\* the indices of the lines of items for product id
LinesOf(items, id) == {i \in 1..Len(items) : items[i].id = id}

RECURSIVE QuantityOver(_, _)
\* the sum of the quantities of the lines of items at the indices in S
QuantityOver(items, S) ==
  IF S = {} THEN 0
  ELSE LET i == CHOOSE x \in S : TRUE
       IN items[i].quantity + QuantityOver(items, S \ {i})

RECURSIVE PriceOver(_, _)
\* the sum of product.price * quantity of the lines of items at the indices in S
PriceOver(items, S) ==
  IF S = {} THEN 0
  ELSE LET i == CHOOSE x \in S : TRUE
       IN items[i].product.price * items[i].quantity
            + PriceOver(items, S \ {i})

\* the last operation was name and returned
Returned(name) == lastOp.name = name /\ ~lastOp.threw

\* items without its line at index i
WithoutLine(items, i) ==
  SubSeq(items, 1, i - 1) \o SubSeq(items, i + 1, Len(items))

(* -------------------------------- C1 ------------------------------------ *)

\* C1: in every reachable cart state, restored or not, totalItems is the sum
\* of the quantities of all lines and totalPrice is the sum of
\* product.price * quantity over all lines.
TotalsMatchLines ==
  /\ cart.totalItems = QuantityOver(cart.items, DOMAIN cart.items)
  /\ cart.totalPrice = PriceOver(cart.items, DOMAIN cart.items)

\* an increment has just raised a line of a two-line cart whose lines were
\* added at different prices
TotalsMatchLinesWitness ==
  /\ Returned("incrementQuantity")
  /\ Len(cart.items) = 2
  /\ cart.items[1].product.price # cart.items[2].product.price
  /\ cart.totalItems = before.cart.totalItems + 1
  /\ cart.totalPrice > before.cart.totalPrice

(* -------------------------------- C2 ------------------------------------ *)

\* C2: in every reachable cart state no two lines have the same product id.
NoTwoLinesShareProduct ==
  \A i, j \in DOMAIN cart.items :
    cart.items[i].id = cart.items[j].id => i = j

\* a product already in a two-line cart has just been added again
NoTwoLinesShareProductWitness ==
  /\ Returned("addToCart")
  /\ LinesOf(before.cart.items, lastOp.id) # {}
  /\ Len(cart.items) = 2

(* -------------------------------- C3 ------------------------------------ *)

\* C3: addToCart(product, quantity), quantity being 1 when the payload has
\* none: when a line for product.id exists, that line's quantity grows by
\* quantity and every line stays where it was; otherwise one new line with
\* that product and quantity is appended at the end of the list.
AddToCartEffect ==
  Returned("addToCart") =>
    LET old == before.cart.items
        new == cart.items
        n == IF lastOp.quantity = << >> THEN 1 ELSE lastOp.quantity[1]
        hit == LinesOf(old, lastOp.id)
    IN IF hit # {}
       THEN /\ Len(new) = Len(old)
            /\ \E i \in hit :
                 /\ new[i] = [old[i] EXCEPT !.quantity = old[i].quantity + n]
                 /\ \A j \in DOMAIN old : j # i => new[j] = old[j]
       ELSE /\ Len(new) = Len(old) + 1
            /\ SubSeq(new, 1, Len(old)) = old
            /\ new[Len(new)].id = lastOp.id
            /\ new[Len(new)].product.id = lastOp.id
            /\ new[Len(new)].quantity = n

\* the second line of a two-line cart has grown by a payload quantity of 2
AddToCartEffectWitness ==
  /\ Returned("addToCart")
  /\ lastOp.quantity = <<2>>
  /\ LinesOf(before.cart.items, lastOp.id) = {2}
  /\ cart.items[2].quantity = before.cart.items[2].quantity + 2

(* -------------------------------- C4 ------------------------------------ *)

UpdateQuantities == (-1)..MaxQuantity

\* C5: for every cart state and product id, updateCartItemQuantity(id, q)
\* with q <= 0 ends exactly as removeFromCart(id) does (cart, stored value,
\* whether it threw); with q > 0 it sets the matching line's quantity to q,
\* and when no line matches it leaves the lines unchanged.
UpdateQuantityLaw ==
  \A id \in ProductIds, n \in UpdateQuantities :
    LET r == updateCartItemQuantity(cart, storage, quota, id, n)
        hit == LinesOf(cart.items, id)
    IN IF n <= 0
       THEN r = removeFromCart(cart, storage, quota, id)
       ELSE IF hit = {}
            THEN r.cart.items = cart.items
            ELSE \E i \in hit :
                   r.cart.items = [cart.items EXCEPT ![i].quantity = n]

\* updateCartItemQuantity(id, 0) has just removed a line of a two-line cart
UpdateQuantityLawWitness ==
  /\ Returned("updateCartItemQuantity")
  /\ lastOp.quantity = <<0>>
  /\ Len(before.cart.items) = 2
  /\ LinesOf(before.cart.items, lastOp.id) # {}
  /\ Len(cart.items) = 1
  /\ cart = removeFromCart(before.cart, before.storage, quota, lastOp.id).cart

(* -------------------------------- C6 ------------------------------------ *)

\* C6: removeFromCart is idempotent: for every cart state and product id,
\* removeFromCart(id) applied twice gives the same cart (lines, totals,
\* visibility) and the same stored value as applied once, and removing an
\* absent id leaves the lines unchanged.
RemoveIdempotent ==
  \A id \in ProductIds :
    LET once == removeFromCart(cart, storage, quota, id)
        twice == removeFromCart(once.cart, once.storage, quota, id)
    IN /\ twice.cart = once.cart
       /\ twice.storage = once.storage
       /\ LinesOf(cart.items, id) = {} => once.cart.items = cart.items

\* removeFromCart(id) dispatched a second time: the line is absent, the
\* other line, of quantity 2, is still there and nothing has changed
RemoveIdempotentWitness ==
  /\ Returned("removeFromCart")
  /\ LinesOf(before.cart.items, lastOp.id) = {}
  /\ Len(cart.items) = 1
  /\ cart.items[1].quantity = 2
  /\ cart = before.cart
  /\ storage = before.storage

(* -------------------------------- C7 ------------------------------------ *)

\* C7: every addToCart of the model carrying a quantity >= 1, every line of
\* every reachable cart state has a quantity >= 1.
QuantitiesAtLeastOne ==
  \A i \in DOMAIN cart.items :
    cart.items[i].quantity \in Nat \ {0}

\* a line was at quantity 1 and decrementQuantity or an update to 0 has
\* just acted on it, leaving the other line
QuantitiesAtLeastOneWitness ==
  /\ \/ Returned("decrementQuantity")
     \/ Returned("updateCartItemQuantity") /\ lastOp.quantity = <<0>>
  /\ \E i \in LinesOf(before.cart.items, lastOp.id) :
       before.cart.items[i].quantity = 1
  /\ Len(cart.items) = 1

(* -------------------------------- C8 ------------------------------------ *)

\* the operations that write lines
LineOperations ==
  {"addToCart", "removeFromCart", "updateCartItemQuantity",
   "incrementQuantity", "decrementQuantity", "clearCart"}

\* two lists of lines hold the same lines: product ids, prices and
\* quantities, in the same order
SameLines(a, b) ==
  /\ Len(a) = Len(b)
  /\ \A i \in DOMAIN a :
       /\ a[i].id = b[i].id
       /\ a[i].product.id = b[i].product.id
       /\ a[i].product.price = b[i].product.price
       /\ a[i].quantity = b[i].quantity

\* the stored value holds the lines and totals of the cart
Mirrors(stored, state) ==
  /\ stored.kind = "cart"
  /\ SameLines(stored.items, state.items)
  /\ stored.totalItems = state.totalItems
  /\ stored.totalPrice = state.totalPrice

\* C8 as stated: after every line-mutating operation that completes without
\* a storage write failure, the stored value holds the lines, totalItems and
\* totalPrice of the cart.
MirrorAfterEveryOperation ==
  (lastOp.name \in LineOperations /\ ~lastOp.threw /\ lastOp.save # "failed")
    => Mirrors(storage, cart)

\* C8 amended: the same after addToCart, removeFromCart,
\* updateCartItemQuantity and clearCart, and after incrementQuantity and
\* decrementQuantity when a line matches their id; with no matching line
\* these two write nothing and the stored value stays what it was.
MirrorAfterEveryWrite ==
  ( /\ lastOp.name \in LineOperations
    /\ ~lastOp.threw
    /\ lastOp.save # "failed"
    /\ lastOp.name \in {"incrementQuantity", "decrementQuantity"}
         => LinesOf(before.cart.items, lastOp.id) # {} )
    => Mirrors(storage, cart)

\* addToCart has just appended a second line and the write has replaced a
\* stored value that differed
MirrorAfterEveryWriteWitness ==
  /\ Returned("addToCart")
  /\ lastOp.save = "stored"
  /\ Len(cart.items) = 2
  /\ cart.items[2].product.createdAt = "Date"
  /\ storage # before.storage
  /\ Mirrors(storage, cart)

(* -------------------------------- C9 ------------------------------------ *)

\* two lists of lines have the same product ids and quantities in the same
\* order
SameIdsAndQuantities(a, b) ==
  /\ Len(a) = Len(b)
  /\ \A i \in DOMAIN a :
       /\ a[i].id = b[i].id
       /\ a[i].product.id = b[i].product.id
       /\ a[i].quantity = b[i].quantity

LoadRecomputesTotals ==
  LET restored == loadCartFromStorage(storage)
  IN /\ restored.totalItems
          = QuantityOver(restored.items, DOMAIN restored.items)
     /\ restored.totalPrice
          = PriceOver(restored.items, DOMAIN restored.items)

\* a stored two-line cart whose totals are both wrong has just been loaded
LoadRecomputesTotalsWitness ==
  /\ Returned("loadCartFromStorage")
  /\ storage.kind = "cart"
  /\ Len(storage.items) = 2
  /\ storage.totalItems # QuantityOver(storage.items, DOMAIN storage.items)
  /\ storage.totalPrice # PriceOver(storage.items, DOMAIN storage.items)
  /\ cart.items = storage.items
  /\ cart.totalItems # storage.totalItems
  /\ cart.totalPrice # storage.totalPrice

(* -------------------------------- C11 ----------------------------------- *)

\* C11: when the cart key is missing from storage, or its value cannot be
\* parsed, loadCartFromStorage does not fail and returns the empty cart: no
\* lines, totalItems 0, totalPrice 0, panel closed.
LoadStartsEmpty ==
  (lastOp.name = "loadCartFromStorage"
   /\ storage.kind \in {"absent", "unparseable"})
  => /\ ~lastOp.threw
     /\ cart.hasItems
     /\ cart.items = << >>
     /\ cart.totalItems = 0
     /\ cart.totalPrice = 0
     /\ cart.isOpen = FALSE

\* a page that held a line in an open panel has been refreshed over a value
\* that cannot be parsed
LoadStartsEmptyWitness ==
  /\ Returned("loadCartFromStorage")
  /\ storage.kind = "unparseable"
  /\ before.cart.items # << >>
  /\ before.cart.isOpen
  /\ cart = EmptyCart

(* -------------------------------- C12 ----------------------------------- *)

\* the quantity product p must have after the last operation, from the
\* lines before it
ExpectedQuantity(p) ==
  LET old == QuantityOver(before.cart.items, LinesOf(before.cart.items, p))
      n == lastOp.quantity
  IN IF lastOp.name = "clearCart" THEN 0
     ELSE IF p # lastOp.id THEN old
     ELSE CASE lastOp.name = "addToCart" -> old + QuantityOrDefault(n)
            [] lastOp.name = "removeFromCart" -> 0
            [] lastOp.name = "updateCartItemQuantity" ->
                 IF old = 0 \/ n[1] <= 0 THEN 0 ELSE n[1]
            [] lastOp.name = "incrementQuantity" ->
                 IF old = 0 THEN 0 ELSE old + 1
            [] lastOp.name = "decrementQuantity" ->
                 IF old = 0 THEN 0 ELSE old - 1
            [] OTHER -> old

\* C12: when the storage write fails during a cart operation, the operation
\* does not raise: the in-memory cart has the operation's new lines and the
\* totals recomputed over them, and the stored value is the one from before
\* the operation.
WriteFailureKeepsCart ==
  lastOp.save = "failed"
  => /\ ~lastOp.threw
     /\ lastOp.name \in LineOperations
     /\ Size(Stringify(cart)) > quota
     /\ \A p \in ProductIds :
          QuantityOver(cart.items, LinesOf(cart.items, p)) = ExpectedQuantity(p)
     /\ cart.totalItems = QuantityOver(cart.items, DOMAIN cart.items)
     /\ cart.totalPrice = PriceOver(cart.items, DOMAIN cart.items)
     /\ storage = before.storage

\* a second product was added to a stored one-line cart and the write did
\* not fit: the cart has two lines, the stored value still has one
WriteFailureKeepsCartWitness ==
  /\ lastOp.name = "addToCart"
  /\ lastOp.save = "failed"
  /\ ~lastOp.threw
  /\ Len(before.cart.items) = 1
  /\ Len(cart.items) = 2
  /\ cart.totalItems > before.cart.totalItems
  /\ storage.kind = "cart"
  /\ Len(storage.items) = 1
  /\ storage = before.storage

(* -------------------------------- C13 ----------------------------------- *)

VisibilityOperations == {"toggleCart", "openCart", "closeCart"}

\* C13: toggleCart, openCart and closeCart change only isOpen: lines,
\* totalItems, totalPrice and the stored value are left unchanged; isOpen
\* is never written to storage, and a cart restored from storage always
\* starts with isOpen false.
VisibilityOnly ==
  /\ lastOp.name \in VisibilityOperations
     => /\ ~lastOp.threw
        /\ lastOp.save = "none"
        /\ cart = [before.cart EXCEPT !.isOpen = cart.isOpen]
        /\ cart.isOpen = CASE lastOp.name = "toggleCart" -> ~before.cart.isOpen
                           [] lastOp.name = "openCart" -> TRUE
                           [] lastOp.name = "closeCart" -> FALSE
        /\ storage = before.storage
  /\ lastOp.save = "stored" => storage.isOpen = "none"
  /\ Stringify(cart).isOpen = "none"
  /\ lastOp.name = "loadCartFromStorage" => cart.isOpen = FALSE

\* a panel was opened over a stored cart, a line operation wrote the cart
\* with the panel open, and the page was refreshed: the panel is closed
VisibilityOnlyWitness ==
  /\ Returned("loadCartFromStorage")
  /\ before.cart.isOpen
  /\ before.cart.items # << >>
  /\ storage = Stringify(before.cart)
  /\ cart.items # << >>
  /\ cart.isOpen = FALSE

(***************************************************************************)
(* calculateOrderSummary applied to lists of order lines.                  *)
(***************************************************************************)

\* catalogue prices of the lines summarised, in cents
SummaryPrices == {274, 1616, 2500, 3110, 5000}

\* the lists of order lines createOrder can have pushed
SummaryLists ==
  UNION {[1..n -> {OrderItem(ProductRecord(1, price, 0, FALSE), quantity) :
                     price \in SummaryPrices,
                     quantity \in 1..MaxOrderQuantity}] :
           n \in 1..MaxSummaryLines}

InitSummary ==
  /\ NoCart
  /\ NoOrderService
  /\ NoCancel
  /\ NoCheckout
  /\ NoAuth
  /\ summaryItems \in SummaryLists
  /\ orderSummary = << >>

CalculateOrderSummary ==
  /\ orderSummary = << >>
  /\ orderSummary' = <<calculateOrderSummary(summaryItems)>>
  /\ UNCHANGED <<summaryItems, cartVars, orderVars, cancelVars, checkoutVars, authVars>>

NextSummary == CalculateOrderSummary

SpecSummary == InitSummary /\ [][NextSummary]_vars

(***************************************************************************)
(* createOrder calls against the products and orders collections.          *)
(***************************************************************************)

\* catalogue prices, in cents
CataloguePrices == {2500, 3000}

\* the documents a product id can have in the collection
CatalogueEntries ==
  {CatalogueEntry(FALSE, 0, 0, FALSE)}
  \cup {CatalogueEntry(TRUE, price, stock, trackInventory) :
          price \in CataloguePrices, stock \in 0..MaxStock,
          trackInventory \in BOOLEAN}

\* the orderData.items a call can be given
SubmittedItems ==
  UNION {[1..n -> {SubmittedItem(p, q) :
                     p \in ProductIds, q \in 1..MaxOrderQuantity}] :
           n \in 0..MaxLines}

InitOrder ==
  /\ NoCart
  /\ NoSummary
  /\ NoCancel
  /\ NoCheckout
  /\ NoAuth
  /\ products \in [ProductIds -> CatalogueEntries]
  /\ orders = << >>
  /\ call = [s \in Sessions |-> IdleCall]
  /\ callHistory = [s \in Sessions |-> NoHistory]
  /\ placed = << >>

\* the histories once someone other than session s has written stock
OtherWriter(s) ==
  [x \in DOMAIN callHistory |->
     IF x # s /\ call[x].pc # "idle"
     THEN [callHistory[x] EXCEPT !.otherWriter = TRUE]
     ELSE callHistory[x]]

\* createOrder is called and runs to its first await
CreateOrder(s) ==
  /\ call[s].pc = "idle"
  /\ Len(orders) < MaxOrders
  /\ \E signedIn \in BOOLEAN, items \in SubmittedItems :
       call' = [call EXCEPT ![s] = createOrderStart(signedIn, items)]
  /\ callHistory' =
       [callHistory EXCEPT ![s] =
          History([p \in ProductIds |-> products[p].inventory.stock],
                  {orders[i].id : i \in DOMAIN orders}, 0, << >>, FALSE)]
  /\ UNCHANGED <<products, orders, placed, cartVars, summaryVars,
               cancelVars, checkoutVars, authVars>>

\* getProductById settles and the loop takes its turn
LookUpProduct(s) ==
  /\ call[s].pc = "lookup"
  /\ \E fetched \in BOOLEAN :
       /\ call' = [call EXCEPT ![s] = createOrderLine(@, products, fetched)]
       /\ callHistory' =
            [callHistory EXCEPT
               ![s].lookups = @ + 1,
               ![s].seen =
                 IF fetched
                 THEN Append(@, products[call[s].items[Len(call[s].orderItems) + 1].productId])
                 ELSE @]
  /\ UNCHANGED <<products, orders, placed, cartVars, summaryVars,
               cancelVars, checkoutVars, authVars>>

\* setDoc settles
SaveOrder(s) ==
  /\ call[s].pc = "save"
  /\ \E written \in BOOLEAN :
       /\ call' = [call EXCEPT ![s] = saveOrder(@, s, orders, written).call]
       /\ orders' = saveOrder(call[s], s, orders, written).orders
       /\ placed' = IF written
                    THEN Append(placed, [items |-> call[s].items,
                                         seen |-> callHistory[s].seen])
                    ELSE placed
  /\ UNCHANGED <<products, callHistory, cartVars, summaryVars,
               cancelVars, checkoutVars, authVars>>

\* batch.commit settles; a batch without updates is not sent and resolves
CommitStock(s) ==
  /\ call[s].pc = "commit"
  /\ \E committed \in BOOLEAN :
       /\ committed \/ ~BatchIsEmpty(call[s].orderItems)
       /\ call' = [call EXCEPT ![s] = commitStock(@, products, committed).call]
       /\ products' = commitStock(call[s], products, committed).products
  /\ callHistory' = IF products' # products THEN OtherWriter(s) ELSE callHistory
  /\ UNCHANGED <<orders, placed, cartVars, summaryVars,
               cancelVars, checkoutVars, authVars>>

\* the caller has the call's result
Return(s) ==
  /\ call[s].pc \in {"resolved", "rejected"}
  /\ call' = [call EXCEPT ![s] = IdleCall]
  /\ callHistory' = [callHistory EXCEPT ![s] = NoHistory]
  /\ UNCHANGED <<products, orders, placed, cartVars, summaryVars,
               cancelVars, checkoutVars, authVars>>

\* a call is in flight or its result not yet taken: what is written to the
\* products before any call is part of the initial state
InFlight == \E s \in Sessions : call[s].pc # "idle"

\* updateProduct with a price
UpdateProductPrice ==
  \E p \in ProductIds, price \in CataloguePrices :
    /\ InFlight
    /\ products[p].exists
    /\ price # products[p].price
    /\ products' = [products EXCEPT ![p].price = price]
    /\ UNCHANGED <<orders, call, callHistory, placed, cartVars, summaryVars,
               cancelVars, checkoutVars, authVars>>

\* updateProduct with a stock
UpdateProductStock ==
  \E p \in ProductIds, stock \in 0..MaxStock :
    /\ InFlight
    /\ products[p].exists
    /\ stock # products[p].inventory.stock
    /\ products' = [products EXCEPT ![p].inventory.stock = stock]
    /\ callHistory' = OtherWriter(0)
    /\ UNCHANGED <<orders, call, placed, cartVars, summaryVars,
               cancelVars, checkoutVars, authVars>>

NextOrder ==
  \/ \E s \in Sessions : CreateOrder(s)
  \/ \E s \in Sessions : LookUpProduct(s)
  \/ \E s \in Sessions : SaveOrder(s)
  \/ \E s \in Sessions : CommitStock(s)
  \/ \E s \in Sessions : Return(s)
  \/ UpdateProductPrice
  \/ UpdateProductStock

SpecOrder == InitOrder /\ [][NextOrder]_vars

(* ---------------------- the order claims' vocabulary -------------------- *)

\* the orders in the collection that the call of session s wrote
OrdersFrom(s) ==
  {i \in DOMAIN orders : /\ orders[i].userId = s
                         /\ orders[i].id \notin callHistory[s].ordersAtStart}

\* every product's stock is what it was when the call of session s started
StockAsAtStart(s) ==
  \A p \in ProductIds :
    products[p].inventory.stock = callHistory[s].stockAtStart[p]

\* the i-th document the call of session s read is missing, or tracks
\* inventory and has less stock than the i-th item asks for
MissingOrShort(s, i) ==
  LET doc == callHistory[s].seen[i]
  IN \/ ~doc.exists
     \/ /\ doc.inventory.trackInventory
        /\ doc.inventory.stock < call[s].items[i].quantity

\* the quantity the items ask of product p
RECURSIVE QuantityOrdered(_, _)
QuantityOrdered(items, p) ==
  IF items = << >> THEN 0
  ELSE (IF Head(items).productId = p THEN Head(items).quantity ELSE 0)
       + QuantityOrdered(Tail(items), p)

(* -------------------------------- C14 ----------------------------------- *)

\* C14: createOrder rejects when any order line's product cannot be found,
\* or when a line's product tracks inventory and its stock is less than the
\* requested quantity; in both cases no order is persisted and no product's
\* stock is changed, whichever line of the order triggers the failure.
RejectsMissingOrShort ==
  \A s \in Sessions :
    (\E i \in 1..Len(callHistory[s].seen) : MissingOrShort(s, i))
    => /\ call[s].pc = "rejected"
       /\ call[s].error \in {"Product not found", "Insufficient stock"}
       /\ OrdersFrom(s) = {}
       /\ ~callHistory[s].otherWriter => StockAsAtStart(s)

\* the first line of a call was pushed and its second line was short of
\* stock: the call has rejected, no order is stored, no stock has moved
RejectsMissingOrShortWitness ==
  \E s \in Sessions :
    /\ call[s].pc = "rejected"
    /\ call[s].error = "Insufficient stock"
    /\ Len(call[s].items) = 2
    /\ Len(callHistory[s].seen) = 2
    /\ ~MissingOrShort(s, 1)
    /\ MissingOrShort(s, 2)
    /\ callHistory[s].seen[1].inventory.trackInventory
    /\ orders = << >>
    /\ ~callHistory[s].otherWriter
    /\ StockAsAtStart(s)

(* -------------------------------- C15 ----------------------------------- *)

\* C15: createOrder called with an empty list of items rejects, and it does
\* so before any product lookup, order write or stock write.
EmptyOrderRejected ==
  \A s \in Sessions :
    (call[s].pc # "idle" /\ call[s].items = << >>)
    => /\ call[s].pc = "rejected"
       /\ callHistory[s].lookups = 0
       /\ OrdersFrom(s) = {}
       /\ ~callHistory[s].otherWriter => StockAsAtStart(s)

\* a signed-in caller's call without items has rejected for that reason
EmptyOrderRejectedWitness ==
  \E s \in Sessions :
    /\ call[s].pc = "rejected"
    /\ call[s].items = << >>
    /\ call[s].error = "Order must contain at least one item"
    /\ callHistory[s].lookups = 0
    /\ orders = << >>
    /\ \E p \in ProductIds : products[p].exists

(* -------------------------------- C18 ----------------------------------- *)

\* C18: a successful createOrder produces exactly one order line per
\* submitted item, in the same order and with the same quantity; each
\* line's priceAtTime is the price of the product record read from the
\* product store during that call, and its totalPrice is
\* round2(priceAtTime * quantity); later changes to the product's price do
\* not change the order line.
OrderLinesFrozen ==
  /\ \A s \in Sessions :
       call[s].pc = "resolved"
       => \E k \in DOMAIN orders : /\ orders[k].id = call[s].orderId
                                   /\ placed[k].items = call[s].items
  /\ \A k \in DOMAIN orders :
       /\ Len(orders[k].items) = Len(placed[k].items)
       /\ \A i \in DOMAIN orders[k].items :
            LET line == orders[k].items[i]
            IN /\ line.productId = placed[k].items[i].productId
               /\ line.quantity = placed[k].items[i].quantity
               /\ line.priceAtTime = placed[k].seen[i].price
               /\ line.totalPrice = line.priceAtTime * line.quantity

\* a call with two items has resolved, one of them of quantity 2, and the
\* price of an ordered product has been changed since it was read
OrderLinesFrozenWitness ==
  \E s \in Sessions, k \in DOMAIN orders :
    /\ call[s].pc = "resolved"
    /\ orders[k].id = call[s].orderId
    /\ Len(orders[k].items) = 2
    /\ \E i \in 1..2 : orders[k].items[i].quantity = 2
    /\ \E i \in 1..2 :
         products[orders[k].items[i].productId].price
           # orders[k].items[i].priceAtTime

(* -------------------------------- C19 ----------------------------------- *)

RejectLeavesNothing ==
  \A s \in Sessions :
    call[s].pc = "rejected"
    => /\ OrdersFrom(s) = {}
       /\ ~callHistory[s].otherWriter => StockAsAtStart(s)

(* -------------------------------- C16 ----------------------------------- *)

\* C16: for every order produced by createOrder, with amounts taken in
\* whole cents, summary.total equals round2(summary.subtotal + summary.tax
\* + summary.shipping - summary.discount) computed from the rounded summary
\* fields.
OrderTotalLaw ==
  orderSummary # << >>
  => LET r == orderSummary[1]
     IN r.total = r.subtotal + r.tax + r.shipping - r.discount

\* three lines were summarised whose tax was rounded up to the cent and
\* which pay the shipping fee
OrderTotalLawWitness ==
  /\ orderSummary # << >>
  /\ Len(summaryItems) = 3
  /\ (TaxRatePercent * orderSummary[1].subtotal) % 100 >= 50
  /\ orderSummary[1].tax * 100 > TaxRatePercent * orderSummary[1].subtotal
  /\ orderSummary[1].shipping = ShippingFeeCents
  /\ orderSummary[1].total
       = orderSummary[1].subtotal + orderSummary[1].tax + ShippingFeeCents

(* -------------------------------- C17 ----------------------------------- *)

\* the sum of the totals of the lines, in cents
RECURSIVE ReferenceSubtotal(_)
ReferenceSubtotal(items) ==
  IF items = << >> THEN 0
  ELSE Head(items).priceAtTime * Head(items).quantity
       + ReferenceSubtotal(Tail(items))

\* C17: calculateOrderSummary matches the reference for every list of order
\* lines: subtotal is the sum of the line totals, tax is 8% of the subtotal
\* rounded to cents, discount is 0, and shipping is 0 when the subtotal is
\* strictly greater than 50 and the flat fee 9.99 otherwise (a subtotal of
\* exactly 50.00 pays shipping).
SummaryMatchesReference ==
  orderSummary # << >>
  => LET r == orderSummary[1]
         subtotal == ReferenceSubtotal(summaryItems)
     IN /\ r.subtotal = subtotal
        /\ 100 * r.tax - 50 <= 8 * subtotal
        /\ 8 * subtotal < 100 * r.tax + 50
        /\ r.discount = 0
        /\ r.shipping = IF subtotal > 5000 THEN 0 ELSE 999

(* -------------------------------- C28 ----------------------------------- *)

\* the operations whose payload names a product
TargetedOperations ==
  {"addToCart", "removeFromCart", "updateCartItemQuantity",
   "incrementQuantity", "decrementQuantity"}

\* the lines of items that are not of product p, in their order
OtherLines(items, p) == SelectSeq(items, LAMBDA line : line.id # p)

\* C28: every cart operation that targets product id p (addToCart,
\* removeFromCart, updateCartItemQuantity, incrementQuantity,
\* decrementQuantity) leaves every line of a different product unchanged in
\* product, quantity and relative order.
OtherLinesUntouched ==
  lastOp.name \in TargetedOperations
  => OtherLines(cart.items, lastOp.id)
       = OtherLines(before.cart.items, lastOp.id)

\* the second of two lines was decremented from quantity 1 and is gone; the
\* first line is as it was
OtherLinesUntouchedWitness ==
  /\ Returned("decrementQuantity")
  /\ Len(before.cart.items) = 2
  /\ before.cart.items[2].id = lastOp.id
  /\ before.cart.items[2].quantity = 1
  /\ before.cart.items[1].quantity > 1
  /\ cart.items = <<before.cart.items[1]>>

(* -------------------------------- C29 ----------------------------------- *)

\* C29: for every string stored under the cart key, including values that
\* parse as JSON but are not an object with a list of items (a number,
\* null, or an object whose items field is missing or null),
\* loadCartFromStorage returns a state whose items is a list, empty when
\* the stored value supplies none, so that every later cart operation can
\* be applied to it.
LoadGivesItemsList ==
  /\ lastOp.name = "loadCartFromStorage"
     => /\ cart.hasItems
        /\ storage.kind # "cart" => cart.items = << >>
  /\ ~lastOp.threw

(***************************************************************************)
(* cancelOrder calls against the orders createOrder wrote.                 *)
(***************************************************************************)

\* who auth.currentUser can be when cancelOrder is called
CurrentUsers == {<< >>} \cup {<<u>> : u \in Users}

\* the orders are of products that exist, at the lowest catalogue price
ExistingCatalogue ==
  {e \in CatalogueEntries :
     e.exists /\ \A f \in CatalogueEntries : f.exists => e.price <= f.price}

InitCancel ==
  /\ NoCart
  /\ NoSummary
  /\ NoCheckout
  /\ NoAuth
  /\ NoCancel
  /\ products \in [ProductIds -> ExistingCatalogue]
  /\ orders = << >>
  /\ call = [s \in Sessions |-> IdleCall]
  /\ callHistory = [s \in Sessions |-> NoHistory]
  /\ placed = << >>

NoCancelInFlight == \A s \in Sessions : cancel[s].pc = "idle"

\* the histories once someone other than a cancelOrder call has written
OtherThanCancel ==
  [s \in Sessions |->
     IF cancel[s].pc # "idle"
     THEN [cancelHistory[s] EXCEPT !.otherWriter = TRUE]
     ELSE cancelHistory[s]]

\* cancelOrder is called and runs to its first await
CancelOrder(s) ==
  /\ cancel[s].pc = "idle"
  /\ \E currentUser \in CurrentUsers, orderId \in 1..(MaxOrders + 1) :
       cancel' = [cancel EXCEPT ![s] = cancelOrderStart(currentUser, orderId)]
  /\ cancelHistory' =
       [cancelHistory EXCEPT ![s] =
          CancelHistory([i \in DOMAIN orders |-> orders[i].status],
                        [p \in ProductIds |-> products[p].inventory.stock],
                        FALSE, << >>, FALSE)]
  /\ UNCHANGED <<cartVars, orderVars, summaryVars, checkoutVars, authVars>>

\* getOrderById settles and the checks run
ReadOrder(s) ==
  /\ cancel[s].pc = "read"
  /\ \E fetched \in BOOLEAN :
       /\ cancel' = [cancel EXCEPT ![s] = cancelOrderCheck(@, orders, fetched)]
       /\ cancelHistory' =
            [cancelHistory EXCEPT
               ![s].answered = fetched,
               ![s].read = IF fetched
                           THEN getOrderById(orders, cancel[s].orderId)
                           ELSE << >>]
  /\ UNCHANGED <<cartVars, orderVars, summaryVars, checkoutVars, authVars>>

\* updateOrderStatus(orderId, 'cancelled') settles
WriteStatus(s) ==
  /\ cancel[s].pc = "status"
  /\ \E written \in BOOLEAN :
       /\ cancel' =
            [cancel EXCEPT ![s] = cancelOrderStatus(@, orders, written).call]
       /\ orders' = cancelOrderStatus(cancel[s], orders, written).orders
  /\ UNCHANGED <<products, call, callHistory, placed, cancelHistory, cartVars,
                 summaryVars, checkoutVars, authVars>>

\* batch.commit settles; a batch without updates is not sent and resolves
RestoreStock(s) ==
  /\ cancel[s].pc = "restore"
  /\ \E committed \in BOOLEAN :
       /\ committed \/ ~BatchIsEmpty(cancel[s].order[1].items)
       /\ cancel' =
            [cancel EXCEPT ![s] = restoreStock(@, products, committed).call]
       /\ products' = restoreStock(cancel[s], products, committed).products
  /\ UNCHANGED <<orders, call, callHistory, placed, cancelHistory, cartVars,
                 summaryVars, checkoutVars, authVars>>

\* the caller has the call's result
CancelReturn(s) ==
  /\ cancel[s].pc \in {"resolved", "rejected"}
  /\ cancel' = [cancel EXCEPT ![s] = IdleCancel]
  /\ cancelHistory' = [cancelHistory EXCEPT ![s] = NoCancelHistory]
  /\ UNCHANGED <<cartVars, orderVars, summaryVars, checkoutVars, authVars>>

\* updateOrderStatus called from elsewhere
SetOrderStatus ==
  \E orderId \in DOMAIN orders, status \in OrderStatuses :
    /\ status # orders[orderId].status
    /\ orders' = updateOrderStatus(orders, orderId, status)
    /\ cancelHistory' = OtherThanCancel
    /\ UNCHANGED <<products, call, callHistory, placed, cancel, cartVars,
                   summaryVars, checkoutVars, authVars>>

\* createOrder runs while no cancelOrder call is in flight
NextCancel ==
  \/ \E s \in Sessions : NoCancelInFlight /\ CreateOrder(s)
  \/ \E s \in Sessions : NoCancelInFlight /\ LookUpProduct(s)
  \/ \E s \in Sessions : NoCancelInFlight /\ SaveOrder(s)
  \/ \E s \in Sessions : NoCancelInFlight /\ CommitStock(s)
  \/ \E s \in Sessions : NoCancelInFlight /\ Return(s)
  \/ \E s \in Sessions : CancelOrder(s)
  \/ \E s \in Sessions : ReadOrder(s)
  \/ \E s \in Sessions : WriteStatus(s)
  \/ \E s \in Sessions : RestoreStock(s)
  \/ \E s \in Sessions : CancelReturn(s)
  \/ SetOrderStatus

SpecCancel == InitCancel /\ [][NextCancel]_vars

(* -------------------------------- C22 ----------------------------------- *)

\* the call was made by a signed-in user and getOrderById answered with a
\* pending order of that user
ReadOwnPending(s) ==
  /\ cancel[s].user # << >>
  /\ cancelHistory[s].answered
  /\ cancelHistory[s].read # << >>
  /\ cancelHistory[s].read[1].userId = cancel[s].user[1]
  /\ cancelHistory[s].read[1].status = "pending"

\* every status and every stock is what it was when the call started
AsAtCancelStart(s) ==
  /\ [i \in DOMAIN orders |-> orders[i].status] = cancelHistory[s].statusAtStart
  /\ [p \in ProductIds |-> products[p].inventory.stock]
       = cancelHistory[s].stockAtStart

\* C22: a cancelOrder call goes past its checks, and resolves with the
\* order's status set to cancelled, only when the order it read exists,
\* belongs to the requesting user and is pending; a call whose read found
\* anything else is rejected, and the status of every order and the stock of
\* every product are then what they were when the call started
CancelsOnlyOwnPending ==
  \A s \in Sessions :
    /\ cancel[s].pc \in {"status", "restore", "resolved"} => ReadOwnPending(s)
    /\ cancel[s].pc = "resolved" /\ ~cancelHistory[s].otherWriter
         => orders[cancel[s].orderId].status = "cancelled"
    /\ cancel[s].pc \notin {"idle", "read"} /\ ~ReadOwnPending(s)
         => /\ cancel[s].pc = "rejected"
            /\ cancelHistory[s].otherWriter \/ AsAtCancelStart(s)

\* an order cancelled once is asked to be cancelled again and the call is
\* rejected
CancelsOnlyOwnPendingWitness ==
  \E s \in Sessions :
    /\ cancel[s].pc = "rejected"
    /\ cancelHistory[s].read # << >>
    /\ cancelHistory[s].read[1].status = "cancelled"
    /\ cancelHistory[s].read[1].userId = cancel[s].user[1]
    /\ ~cancelHistory[s].otherWriter
    /\ \E p \in ProductIds : products[p].inventory.stock > 0

(* -------------------------------- C23 ----------------------------------- *)

\* C23: once createOrder has resolved and cancelOrder of its order has
\* resolved, nobody else having written, every product that tracks
\* inventory has the stock it had when createOrder was called
CancelRestoresStock ==
  \A s \in Sessions :
    /\ call[s].pc = "resolved"
    /\ ~callHistory[s].otherWriter
    /\ cancel[s].pc = "resolved"
    /\ cancel[s].orderId = call[s].orderId
    => \A p \in ProductIds :
         products[p].inventory.trackInventory
         => products[p].inventory.stock = callHistory[s].stockAtStart[p]

(***************************************************************************)
(* createOrder calls of several sessions against the same products.        *)
(***************************************************************************)

\* sessions whose createOrder calls run against the same products
NumRaceSessions == 2
RaceSessions == 1..NumRaceSessions

\* the products exist and track inventory; nobody but the sessions writes
InitRace ==
  /\ NoCart
  /\ NoSummary
  /\ NoCheckout
  /\ NoAuth
  /\ NoCancel
  /\ products \in [ProductIds -> {e \in ExistingCatalogue :
                                    e.inventory.trackInventory}]
  /\ orders = << >>
  /\ call = [s \in RaceSessions |-> IdleCall]
  /\ callHistory = [s \in RaceSessions |-> NoHistory]
  /\ placed = << >>

NextRace ==
  \/ \E s \in RaceSessions : CreateOrder(s)
  \/ \E s \in RaceSessions : LookUpProduct(s)
  \/ \E s \in RaceSessions : SaveOrder(s)
  \/ \E s \in RaceSessions : CommitStock(s)
  \/ \E s \in RaceSessions : Return(s)

SpecRace == InitRace /\ [][NextRace]_vars

\* the stock of product p that the call of session s read, at each lookup
\* of p it made
StockSeen(s, p) ==
  {callHistory[s].seen[i].inventory.stock :
     i \in {j \in 1..Len(callHistory[s].seen) :
              call[s].items[j].productId = p}}

\* the calls of sessions s and t have both resolved and together ordered
\* more of product p than there was when the first of them started
Oversold(s, t, p) ==
  /\ s # t
  /\ call[s].pc = "resolved"
  /\ call[t].pc = "resolved"
  /\ QuantityOrdered(call[s].items, p) > 0
  /\ QuantityOrdered(call[t].items, p) > 0
  /\ \A x \in {s, t} :
       QuantityOrdered(call[s].items, p) + QuantityOrdered(call[t].items, p)
         > callHistory[x].stockAtStart[p]

(* -------------------------------- C24 ----------------------------------- *)

\* C24: two createOrder calls from different sessions can both succeed for
\* one tracked product although their quantities together exceed the stock
\* there was (the witness), and when single-line orders do so it is by this
\* interleaving: each call read the stock as it was before either wrote, so
\* both passed the check on the same stock, and the stock left is that stock
\* less one call's quantity
OversellByInterleaving ==
  \A s, t \in RaceSessions, p \in ProductIds :
    /\ Oversold(s, t, p)
    /\ Len(call[s].items) = 1
    /\ Len(call[t].items) = 1
    => /\ StockSeen(s, p) = {callHistory[s].stockAtStart[p]}
       /\ StockSeen(t, p) = StockSeen(s, p)
       /\ products[p].inventory.stock
            \in {callHistory[s].stockAtStart[p] - call[x].items[1].quantity :
                   x \in {s, t}}

\* both calls have resolved, each for one unit of the same product, of which
\* there was one, and both orders are in the collection
OversellByInterleavingWitness ==
  \E s, t \in RaceSessions, p \in ProductIds :
    /\ Oversold(s, t, p)
    /\ call[s].items = <<SubmittedItem(p, 1)>>
    /\ call[t].items = <<SubmittedItem(p, 1)>>
    /\ callHistory[s].stockAtStart[p] = 1
    /\ StockSeen(s, p) = {1}
    /\ StockSeen(t, p) = {1}
    /\ Len(orders) = 2
    /\ orders[call[s].orderId].userId = s
    /\ orders[call[t].orderId].userId = t

(* -------------------------------- C27 ----------------------------------- *)

\* C27: whatever the interleaving of the sessions' createOrder calls, the
\* stock of a product that tracks inventory is never negative
StockNeverNegative ==
  \A p \in ProductIds :
    products[p].inventory.trackInventory => products[p].inventory.stock >= 0

\* two calls that were in flight together have both written the stock of
\* the same product, and one of them has ordered it on two lines
StockNeverNegativeWitness ==
  \E s, t \in RaceSessions, p \in ProductIds :
    /\ s # t
    /\ call[s].pc = "resolved"
    /\ call[t].pc = "resolved"
    /\ callHistory[s].otherWriter
    /\ callHistory[t].otherWriter
    /\ call[s].items = <<SubmittedItem(p, 1), SubmittedItem(p, 1)>>
    /\ QuantityOrdered(call[t].items, p) > 0
    /\ products[p].inventory.stock = 0

(* -------------------------------- C25 ----------------------------------- *)

\* the order lines of the call of session s whose stock has been validated:
\* those pushed, and the one the call was rejected on for its stock
Validated(s) ==
  Len(call[s].orderItems)
  + (IF call[s].error = "Insufficient stock" THEN 1 ELSE 0)

\* C25, as claimed: a call that has validated the stock of a line has had
\* the lookups of all its lines resolved
ValidationAfterAllLookups ==
  \A s \in Sessions :
    Validated(s) > 0 => callHistory[s].lookups = Len(call[s].items)

\* C25, amended: a line's stock is validated only after its own lookup has
\* resolved, on the document that lookup read, and the order is written
\* only after the lookups of all lines have resolved and all lines are
\* validated
ValidationAfterOwnLookup ==
  \A s \in Sessions :
    /\ Validated(s) <= callHistory[s].lookups
    /\ \A i \in 1..Len(call[s].orderItems) :
         /\ i <= Len(callHistory[s].seen)
         /\ call[s].orderItems[i].product.inventory
              = callHistory[s].seen[i].inventory
    /\ call[s].pc \in {"save", "commit", "resolved"} \/ call[s].orderId # 0
         => /\ callHistory[s].lookups = Len(call[s].items)
            /\ Len(call[s].orderItems) = Len(call[s].items)

\* the first of two lines is validated and the lookup of the second has not
\* resolved
ValidationAfterOwnLookupWitness ==
  \E s \in Sessions :
    /\ call[s].pc = "lookup"
    /\ Len(call[s].items) = 2
    /\ Len(call[s].orderItems) = 1
    /\ callHistory[s].lookups = 1
    /\ call[s].orderItems[1].product.inventory.trackInventory

(***************************************************************************)
(* Checkout: the cart panel places an order from the cart while the cart   *)
(* stays open to the other handlers.                                       *)
(***************************************************************************)

\* an empty cart, storage with room, products that exist and track inventory
InitCheckout ==
  /\ cart = EmptyCart
  /\ storage = Absent
  /\ quota = MaxQuota
  /\ lastOp = Op("loadCartFromStorage", 0, << >>, FALSE, "none")
  /\ before = [cart |-> EmptyCart, storage |-> Absent]
  /\ NoSummary
  /\ NoCancel
  /\ NoAuth
  /\ checkout = IdleCheckout
  /\ products \in [ProductIds -> {e \in ExistingCatalogue :
                                    e.inventory.trackInventory}]
  /\ orders = << >>
  /\ call = [s \in Sessions |-> IdleCall]
  /\ callHistory = [s \in Sessions |-> NoHistory]
  /\ placed = << >>

\* Place Order is pressed: handlePlaceOrder runs to its await
PlaceOrder(s) ==
  /\ checkout.pc # "creating"
  /\ call[s].pc = "idle"
  /\ Len(orders) < MaxOrders
  /\ \E isAuthenticated \in BOOLEAN, addressComplete \in BOOLEAN,
        signedIn \in BOOLEAN :
       /\ checkout' = handlePlaceOrder(s, cart, isAuthenticated, addressComplete)
       /\ call' = IF checkout'.pc = "creating"
                  THEN [call EXCEPT
                          ![s] = createOrderStart(signedIn, checkout'.submitted)]
                  ELSE call
       /\ callHistory' =
            IF checkout'.pc = "creating"
            THEN [callHistory EXCEPT ![s] =
                    History([p \in ProductIds |-> products[p].inventory.stock],
                            {orders[i].id : i \in DOMAIN orders}, 0, << >>,
                            FALSE)]
            ELSE callHistory
  /\ UNCHANGED <<cartVars, products, orders, placed, summaryVars, cancelVars,
                 authVars>>

\* createOrder has settled and handlePlaceOrder goes on
PlaceOrderSettled(s) ==
  /\ checkout.pc = "creating"
  /\ checkout.session = s
  /\ call[s].pc \in {"resolved", "rejected"}
  /\ LET r == handlePlaceOrderSettled(s, call[s], cart, storage, quota)
     IN /\ checkout' = r.checkout
        /\ cart' = r.outcome.cart
        /\ storage' = r.outcome.storage
        /\ lastOp' = IF r.dispatched
                     THEN Op("clearCart", 0, << >>, r.outcome.threw,
                             r.outcome.save)
                     ELSE lastOp
        /\ before' = IF r.dispatched
                     THEN [cart |-> cart, storage |-> storage]
                     ELSE before
  /\ call' = [call EXCEPT ![s] = IdleCall]
  /\ callHistory' = [callHistory EXCEPT ![s] = NoHistory]
  /\ UNCHANGED <<quota, products, orders, placed, summaryVars, cancelVars,
                 authVars>>

\* Add to Cart on the home page: addToCart with one unit of a product of
\* the catalogue, then openCart
HandleAddToCart ==
  \E id \in ProductIds :
    LET added == addToCart(cart, storage, quota,
                           Product(id, products[id].price, "Date"), <<1>>)
        opened == openCart(added.cart, added.storage)
    IN /\ products[id].exists
       /\ WithinCap(added.cart.items)
       /\ cart' = opened.cart
       /\ storage' = opened.storage
       /\ lastOp' = Op("openCart", 0, << >>, opened.threw, opened.save)
       /\ before' = [cart |-> added.cart, storage |-> added.storage]
       /\ UNCHANGED <<quota, orderVars, summaryVars, cancelVars, checkoutVars,
                      authVars>>

\* the panel can be closed, and the home page and the cart list used, while
\* createOrder is awaited; the Clear Cart button is disabled meanwhile
NextCheckout ==
  \/ \E s \in Sessions : PlaceOrder(s)
  \/ \E s \in Sessions : LookUpProduct(s)
  \/ \E s \in Sessions : SaveOrder(s)
  \/ \E s \in Sessions : CommitStock(s)
  \/ \E s \in Sessions : PlaceOrderSettled(s)
  \/ HandleAddToCart
  \/ RemoveFromCart
  \/ IncrementQuantity
  \/ DecrementQuantity
  \/ checkout.pc # "creating" /\ ClearCart
  \/ CloseCart

SpecCheckout == InitCheckout /\ [][NextCheckout]_vars

(* -------------------------------- C21 ----------------------------------- *)

\* the order that createOrder resolved with is in the collection with the
\* submitted lines, and the stock of every tracked product it has a line of
\* is below what createOrder read
OrderPlaced(c, submitted) ==
  /\ c.orderId \in DOMAIN orders
  /\ [i \in 1..Len(orders[c.orderId].items) |->
        SubmittedItem(orders[c.orderId].items[i].productId,
                      orders[c.orderId].items[i].quantity)] = submitted
  /\ \A i \in 1..Len(orders[c.orderId].items) :
       orders[c.orderId].items[i].product.inventory.trackInventory
       => products[orders[c.orderId].items[i].productId].inventory.stock
            < orders[c.orderId].items[i].product.inventory.stock

\* C21: a step of the order placement clears the cart (no lines, totals 0)
\* only when createOrder has resolved, the order persisted and the stock
\* decremented; when createOrder has rejected, or the address is
\* incomplete, or it only starts createOrder, it leaves the cart as it is
ClearedOnlyAfterOrder ==
  [][checkout' # checkout
     => IF checkout.pc = "creating" /\ call[checkout.session].pc = "resolved"
        THEN /\ checkout'.pc = "done"
             /\ OrderPlaced(call[checkout.session], checkout.submitted)
             /\ cart'.items = << >>
             /\ cart'.totalItems = 0
             /\ cart'.totalPrice = 0
             /\ lastOp'.name = "clearCart"
        ELSE /\ checkout'.pc # "done"
             /\ cart' = cart
             /\ lastOp' = lastOp]_vars

\* createOrder rejected for a cart with lines, and the lines are still there
ClearedOnlyAfterOrderWitness ==
  /\ checkout.pc = "failed"
  /\ checkout.error = "Insufficient stock"
  /\ cart.items # << >>
  /\ lastOp.name # "clearCart"

(* -------------------------------- C26 ----------------------------------- *)

\* C26: the cart that a successful order placement clears holds exactly the
\* lines that were submitted
ClearedWhatWasOrdered ==
  [][checkout.pc = "creating" /\ checkout'.pc = "done"
     => OrderDataItems(cart.items) = checkout.submitted]_vars

(***************************************************************************)
(* The auth listener of AuthProvider.                                      *)
(***************************************************************************)

\* auth-state events the listener receives
MaxEvents == 3

InitAuth ==
  /\ NoCart
  /\ NoOrderService
  /\ NoSummary
  /\ NoCancel
  /\ NoCheckout
  /\ auth = AuthState(<< >>, FALSE, TRUE, "none")
  /\ listener = Listener(<< >>, << >>)

\* the listener is called with the user who signed in, or with null
AuthStateChanged ==
  /\ Len(listener.events) < MaxEvents
  /\ \E firebaseUser \in CurrentUsers :
       /\ auth' = authStateChanged(auth, listener, firebaseUser).auth
       /\ listener' = authStateChanged(auth, listener, firebaseUser).listener
  /\ UNCHANGED <<cartVars, orderVars, summaryVars, cancelVars, checkoutVars>>

\* a getUserProfile settles
ProfileFetched ==
  \E i \in 1..Len(listener.fetching), answer \in {"profile", "null", "error"} :
    /\ auth' = profileFetched(auth, listener, i, answer).auth
    /\ listener' = profileFetched(auth, listener, i, answer).listener
    /\ UNCHANGED <<cartVars, orderVars, summaryVars, cancelVars, checkoutVars>>

NextAuth ==
  \/ AuthStateChanged
  \/ ProfileFetched

SpecAuth == InitAuth /\ [][NextAuth]_vars

(* -------------------------------- C30 ----------------------------------- *)

\* C30: once every profile fetch has settled, user and isAuthenticated are
\* those of the last event received: after a sign-out nobody is signed in,
\* after a sign-in the user is that user's profile, or nobody when the
\* profile could not be had
ReflectsLastEvent ==
  /\ listener.events # << >>
  /\ listener.fetching = << >>
  => /\ auth.isAuthenticated = (auth.user # << >>)
     /\ auth.user \in {<< >>, listener.events[Len(listener.events)]}

====
